---- MODULE Spec2Model ----
(***************************************************************************)
(* Model of src/src/main.rs: a population of five persons, each owning a   *)
(* Happiness whose modifier vector is cleared and refilled every week, two *)
(* process-wide AtomicU64 id counters, the index people_by_id, and the     *)
(* keyed store fields the views hold on to.                                *)
(*                                                                         *)
(* Numbers: an id is a natural number below IdModulus (AtomicU64 modelled  *)
(* at IdBits bits, fetch_add wrapping as the atomic does); a happiness of  *)
(* 0.5 is written 50 (hundredths).  Vec positions are 0-based as in the    *)
(* source, so element i of a Vec v is v[i + 1].                            *)
(***************************************************************************)
EXTENDS Integers, Sequences, FiniteSets, TLC

VARIABLES
    NEXT_PERSON_ID,             \* static AtomicU64, main.rs:89
    NEXT_HAPPINESS_MODIFIER_ID, \* static AtomicU64, main.rs:167
    people,                     \* Population.people: Vec<Person>
    people_by_id,               \* Population.people_by_id: HashMap<PersonId, usize>
    pc,                         \* "boot" | "idle" | "iter" | "push"
    cur,                        \* position of Population::finish_week's iterator
    week,                       \* finished weeks
    extras,                     \* add_happiness_modifier calls made outside a tick
    fault,                      \* "none", or the panic that ended the process
    handle,                     \* a Field<HappinessModifier> kept by a view
    issuedPersonIds,            \* history: ids NEXT_PERSON_ID has returned
    issuedModifierIds,          \* history: ids NEXT_HAPPINESS_MODIFIER_ID has returned
    discardedModifierIds,       \* history: ids of modifiers a clear() has dropped
    before,                     \* history: people when the running tick was called
    ticked,                     \* history: persons Person::finish_week ran on, this tick
    inserted,                   \* history: person keys in the order new() pushed them
    created,                    \* history: modifier ids the running tick has allocated
    op,                         \* history: the last operation and what it returned
    thr                         \* threads that call create() concurrently

vars == <<NEXT_PERSON_ID, NEXT_HAPPINESS_MODIFIER_ID, people, people_by_id, pc, cur,
          week, extras, fault, handle, issuedPersonIds, issuedModifierIds,
          discardedModifierIds, before, ticked, inserted, created, op, thr>>

mainVars == <<people, people_by_id, pc, cur, week, extras, fault, handle,
              issuedPersonIds, issuedModifierIds, discardedModifierIds, before,
              ticked, inserted, created, op>>

----------------------------------------------------------------------------
(* Bounds of the model and constants of the program.                       *)

IdBits == 5
NumPeople == 5
MaxWeeks == 2
MaxExtra == 2
MaxEarlier == 2
NumThreads == 3

IdModulus == 2 ^ IdBits
IdMax == IdModulus - 1
Ids == 0 .. IdMax
FIRST_ID == 1

----------------------------------------------------------------------------
(* Pure parts of the program.                                              *)

\* fetch_sub in place of fetch_add: the counter runs backwards
fetch_sub(counter) ==
    [ret |-> counter, next |-> (counter + IdModulus - 1) % IdModulus]

\* AtomicU64::fetch_add(1, Relaxed): returns the old value, stores old + 1 wrapped.
fetch_add(counter) ==
    [ret |-> counter, next |-> (counter + 1) % IdModulus]

\* enum HappinessModifierKind
HappinessModifierKind == {"Default"}

\* a mapping that falls back to 0
KindHappinessZero(kind) == 0

\* HappinessModifierKind::happiness
KindHappiness(kind) ==
    CASE kind = "Default" -> 50

\* a load() in place of the fetch_add: the counter is read and never advanced
HappinessModifierCreateLoad(counter) ==
    [value |-> [id |-> counter, kind |-> "Default"], next |-> counter]

\* HappinessModifier::create
HappinessModifierCreate(counter) ==
    LET a == fetch_add(counter)
    IN  [value |-> [id |-> a.ret, kind |-> "Default"], next |-> a.next]

\* an initial Happiness seeded with two modifiers that share one id
HappinessNewInitialTwo(counter) ==
    LET m == HappinessModifierCreate(counter)
    IN  [value |-> [happiness_modifiers |-> <<m.value, m.value>>], next |-> m.next]

\* Happiness::new_initial
HappinessNewInitial(counter) ==
    LET m == HappinessModifierCreate(counter)
    IN  [value |-> [happiness_modifiers |-> <<m.value>>], next |-> m.next]

\* a create that takes the counter's value after the increment as the id
PersonCreateNextId(pcounter, mcounter) ==
    LET a == fetch_add(pcounter)
        h == HappinessNewInitial(mcounter)
    IN  [value |-> [id |-> a.next, happiness |-> h.value],
         pnext |-> a.next, mnext |-> h.next]

\* Person::create: the id is allocated first, then the initial Happiness.
PersonCreate(pcounter, mcounter) ==
    LET a == fetch_add(pcounter)
        h == HappinessNewInitial(mcounter)
    IN  [value |-> [id |-> a.ret, happiness |-> h.value],
         pnext |-> a.next, mnext |-> h.next]

\* Person::key / HappinessModifier::key
Key(row) == row.id

KeysOf(rows) == {Key(rows[i]) : i \in 1 .. Len(rows)}

\* a clear that removes nothing
VecClearNoop(v) == v

\* Vec::clear
VecClear(v) == <<>>

\* Vec::push
VecPush(v, x) == Append(v, x)

Modifiers(person) == person.happiness.happiness_modifiers

\* a write that always lands in the first person's store
WithModifiersFirst(seq, index, mods) ==
    [seq EXCEPT ![1].happiness.happiness_modifiers = mods]

\* the write guard of person.happiness().happiness_modifiers() at `index`
WithModifiers(seq, index, mods) ==
    [seq EXCEPT ![index + 1].happiness.happiness_modifiers = mods]

\* the index built with positions counted from 1
PopulationIndexFromOne(seq) ==
    [k \in {seq[i].id : i \in 1 .. Len(seq)} |->
        CHOOSE i \in 1 .. Len(seq) : seq[i].id = k]

\* Population::new, the collect() into the HashMap: a later entry replaces an
\* earlier one with the same key.
PopulationIndex(seq) ==
    [k \in KeysOf(seq) |->
        (CHOOSE i \in 1 .. Len(seq) :
            /\ Key(seq[i]) = k
            /\ \A j \in (i + 1) .. Len(seq) : Key(seq[j]) # k) - 1]

NoPerson == [id |-> -1, index |-> -1]

\* unwrap_or(&0) in place of the panic: an absent id falls back to position 0
PopulationPersonOrFirst(index, seq, person_id) ==
    LET at == IF person_id \in DOMAIN index THEN index[person_id] ELSE 0
    IN  [fault |-> "none", person |-> [id |-> seq[at + 1].id, index |-> at]]

\* Population::person: the index lookup (panics when the id is absent), then
\* nth(index).unwrap().
PopulationPerson(index, seq, person_id) ==
    IF person_id \notin DOMAIN index
    THEN [fault |-> "NotFound", person |-> NoPerson]
    ELSE IF index[person_id] >= Len(seq)
         THEN [fault |-> "Unwrap", person |-> NoPerson]
         ELSE [fault |-> "none",
               person |-> [id |-> Key(seq[index[person_id] + 1]),
                           index |-> index[person_id]]]

\* a loop that stops one element early
IterHasNextShort(position, seq) == position < Len(seq) - 1

\* The loop condition of `for person in this.people().iter_unkeyed()`.
IterHasNext(position, seq) == position < Len(seq)

\* an iterator that yields the rows last to first
IterNthBack(position, seq) == Len(seq) - 1 - position

\* iter_unkeyed(): the position in the Vec of the row yielded at `position`
IterNth(position, seq) == position

NoHandle == [person |-> -1, key |-> -1]
NoOp == [name |-> "none", person |-> -1, pid |-> -1, mid |-> -1, result |-> -1]

\* try_read() of a keyed row field: the row with the handle's key, if the store
\* still holds one.
TryRead(seq, h) ==
    LET rows == Modifiers(seq[h.person + 1])
        at == {i \in 1 .. Len(rows) : Key(rows[i]) = h.key}
    IN  IF at = {} THEN [some |-> FALSE, kind |-> "Default"]
        ELSE [some |-> TRUE, kind |-> rows[CHOOSE i \in at : \A j \in at : i <= j].kind]

\* HappinessModifier::happiness: this.kind().try_read().unwrap().happiness()
HappinessModifierHappiness(seq, h) ==
    LET r == TryRead(seq, h)
    IN  IF r.some THEN [fault |-> "none", value |-> KindHappiness(r.kind)]
        ELSE [fault |-> "Unwrap", value |-> -1]

NoThread == [pc |-> "idle", kind |-> "none", seen |-> -1, got |-> -1]

----------------------------------------------------------------------------
(* Initial states.                                                         *)

\* The process as it starts: both counters at their static initial value.
InitFrom(pstart, mstart) ==
    /\ NEXT_PERSON_ID = pstart
    /\ NEXT_HAPPINESS_MODIFIER_ID = mstart
    /\ people = <<>>
    /\ people_by_id = [k \in {} |-> 0]
    /\ pc = "boot"
    /\ cur = 0
    /\ week = 0
    /\ extras = 0
    /\ fault = "none"
    /\ handle = NoHandle
    /\ issuedPersonIds = FIRST_ID .. (pstart - 1)
    /\ issuedModifierIds = FIRST_ID .. (mstart - 1)
    /\ discardedModifierIds = {}
    /\ before = <<>>
    /\ ticked = <<>>
    /\ inserted = <<>>
    /\ created = <<>>
    /\ op = NoOp
    /\ thr = [t \in 1 .. NumThreads |-> NoThread]

Init == InitFrom(FIRST_ID, FIRST_ID)

----------------------------------------------------------------------------
(* Population::new, one Person::create per step, then the index.           *)

PopulationNewPush ==
    /\ pc = "boot"
    /\ Len(people) < NumPeople
    /\ LET c == PersonCreate(NEXT_PERSON_ID, NEXT_HAPPINESS_MODIFIER_ID)
       IN  /\ people' = VecPush(people, c.value)
           /\ NEXT_PERSON_ID' = c.pnext
           /\ NEXT_HAPPINESS_MODIFIER_ID' = c.mnext
           /\ issuedPersonIds' = issuedPersonIds \cup {Key(c.value)}
           /\ inserted' = Append(inserted, Key(c.value))
           /\ issuedModifierIds' = issuedModifierIds \cup KeysOf(Modifiers(c.value))
           /\ op' = [NoOp EXCEPT !.name = "PersonCreate", !.person = Len(people),
                                 !.pid = Key(c.value),
                                 !.mid = Key(Modifiers(c.value)[1])]
    /\ UNCHANGED <<people_by_id, pc, cur, week, extras, fault, handle,
                   discardedModifierIds, before, ticked, created, thr>>

PopulationNewCollect ==
    /\ pc = "boot"
    /\ Len(people) = NumPeople
    /\ people_by_id' = PopulationIndex(people)
    /\ pc' = "idle"
    /\ op' = [NoOp EXCEPT !.name = "PopulationNew"]
    /\ UNCHANGED <<NEXT_PERSON_ID, NEXT_HAPPINESS_MODIFIER_ID, people, cur, week,
                   extras, fault, handle, issuedPersonIds, issuedModifierIds,
                   discardedModifierIds, before, ticked, inserted, created, thr>>

----------------------------------------------------------------------------
(* GlobalState::finish_week -> Population::finish_week -> Person::finish_week *)
(* -> Happiness::finish_week, whose two writes are two steps.              *)

FinishWeek ==
    /\ pc = "idle"
    /\ fault = "none"
    /\ week < MaxWeeks
    /\ pc' = "iter"
    /\ cur' = 0
    /\ before' = people
    /\ ticked' = <<>>
    /\ created' = <<>>
    /\ op' = [NoOp EXCEPT !.name = "FinishWeek"]
    /\ UNCHANGED <<NEXT_PERSON_ID, NEXT_HAPPINESS_MODIFIER_ID, people, people_by_id,
                   week, extras, fault, handle, issuedPersonIds, issuedModifierIds,
                   discardedModifierIds, inserted, thr>>

\* a write() that waits for a guard nobody releases: the step never happens
HappinessClearBlocked ==
    /\ pc = "iter"
    /\ IterHasNext(cur, people)
    /\ FALSE
    /\ UNCHANGED vars

\* a clear that empties the store of every person at once
HappinessClearAll ==
    /\ pc = "iter"
    /\ IterHasNext(cur, people)
    /\ LET at == IterNth(cur, people)
       IN  /\ people' = [i \in 1 .. Len(people) |->
                            [people[i] EXCEPT !.happiness.happiness_modifiers = <<>>]]
           /\ discardedModifierIds' = discardedModifierIds \cup
                  UNION {KeysOf(Modifiers(people[i])) : i \in 1 .. Len(people)}
           /\ ticked' = Append(ticked, Key(people[at + 1]))
           /\ op' = [NoOp EXCEPT !.name = "HappinessClear", !.person = at]
    /\ pc' = "push"
    /\ UNCHANGED <<NEXT_PERSON_ID, NEXT_HAPPINESS_MODIFIER_ID, people_by_id, cur,
                   week, extras, fault, handle, issuedPersonIds, issuedModifierIds,
                   before, inserted, created, thr>>

\* person.happiness().happiness_modifiers().write().clear()
HappinessClear ==
    /\ pc = "iter"
    /\ IterHasNext(cur, people)
    /\ LET at == IterNth(cur, people)
           rows == Modifiers(people[at + 1])
       IN  /\ people' = WithModifiers(people, at, VecClear(rows))
           /\ discardedModifierIds' = discardedModifierIds \cup KeysOf(rows)
           /\ ticked' = Append(ticked, Key(people[at + 1]))
           /\ op' = [NoOp EXCEPT !.name = "HappinessClear", !.person = at]
    /\ pc' = "push"
    /\ UNCHANGED <<NEXT_PERSON_ID, NEXT_HAPPINESS_MODIFIER_ID, people_by_id, cur,
                   week, extras, fault, handle, issuedPersonIds, issuedModifierIds,
                   before, inserted, created, thr>>

\* Happiness::add_happiness_modifier on the people `seq`, person at `index`
add_happiness_modifier(seq, index, counter) ==
    LET m == HappinessModifierCreate(counter)
    IN  [people |-> WithModifiers(seq, index, VecPush(Modifiers(seq[index + 1]), m.value)),
         id |-> Key(m.value), next |-> m.next]

\* the tick's modifier takes its id from the person counter
HappinessPushPersonCounter ==
    /\ pc = "push"
    /\ LET at == IterNth(cur, people)
           a == add_happiness_modifier(people, at, NEXT_PERSON_ID)
       IN  /\ people' = a.people
           /\ NEXT_PERSON_ID' = a.next
           /\ issuedModifierIds' = issuedModifierIds \cup {a.id}
           /\ created' = Append(created, a.id)
           /\ op' = [NoOp EXCEPT !.name = "HappinessPush", !.person = at, !.mid = a.id]
    /\ cur' = cur + 1
    /\ pc' = "iter"
    /\ UNCHANGED <<NEXT_HAPPINESS_MODIFIER_ID, people_by_id, week, extras, fault, handle,
                   issuedPersonIds, discardedModifierIds, before, ticked, inserted, thr>>

\* Self::add_happiness_modifier(person.happiness().into()), then the loop moves on
HappinessPush ==
    /\ pc = "push"
    /\ LET at == IterNth(cur, people)
           a == add_happiness_modifier(people, at, NEXT_HAPPINESS_MODIFIER_ID)
       IN  /\ people' = a.people
           /\ NEXT_HAPPINESS_MODIFIER_ID' = a.next
           /\ issuedModifierIds' = issuedModifierIds \cup {a.id}
           /\ created' = Append(created, a.id)
           /\ op' = [NoOp EXCEPT !.name = "HappinessPush", !.person = at, !.mid = a.id]
    /\ cur' = cur + 1
    /\ pc' = "iter"
    /\ UNCHANGED <<NEXT_PERSON_ID, people_by_id, week, extras, fault, handle,
                   issuedPersonIds, discardedModifierIds, before, ticked, inserted, thr>>

FinishWeekReturn ==
    /\ pc = "iter"
    /\ ~IterHasNext(cur, people)
    /\ pc' = "idle"
    /\ week' = week + 1
    /\ op' = [NoOp EXCEPT !.name = "FinishWeekReturn"]
    /\ UNCHANGED <<NEXT_PERSON_ID, NEXT_HAPPINESS_MODIFIER_ID, people, people_by_id,
                   cur, extras, fault, handle, issuedPersonIds, issuedModifierIds,
                   discardedModifierIds, before, ticked, inserted, created, thr>>

----------------------------------------------------------------------------
(* The other public operations, called between ticks.                      *)

\* Happiness::add_happiness_modifier called on person `index`, outside a tick
AddHappinessModifier(index) ==
    /\ pc = "idle"
    /\ fault = "none"
    /\ extras < MaxExtra
    /\ LET a == add_happiness_modifier(people, index, NEXT_HAPPINESS_MODIFIER_ID)
       IN  /\ people' = a.people
           /\ NEXT_HAPPINESS_MODIFIER_ID' = a.next
           /\ issuedModifierIds' = issuedModifierIds \cup {a.id}
           /\ op' = [NoOp EXCEPT !.name = "AddHappinessModifier", !.person = index,
                                 !.mid = a.id]
    /\ extras' = extras + 1
    /\ UNCHANGED <<NEXT_PERSON_ID, people_by_id, pc, cur, week, fault, handle,
                   issuedPersonIds, discardedModifierIds, before, ticked, inserted,
                   created, thr>>

\* Population::person(person_id)
PersonLookup(person_id) ==
    /\ pc = "idle"
    /\ fault = "none"
    /\ LET r == PopulationPerson(people_by_id, people, person_id)
       IN  /\ fault' = r.fault
           /\ op' = [NoOp EXCEPT !.name = "PersonLookup", !.pid = person_id,
                                 !.person = r.person.index, !.result = r.person.id]
    /\ UNCHANGED <<NEXT_PERSON_ID, NEXT_HAPPINESS_MODIFIER_ID, people, people_by_id,
                   pc, cur, week, extras, handle, issuedPersonIds, issuedModifierIds,
                   discardedModifierIds, before, ticked, inserted, created, thr>>

\* HappinessModifierTable: looks the person up and hands each row of its
\* modifiers to a HappinessModifierTableEntry; `row` is the entry followed here.
HappinessModifierTable(person_id, row) ==
    /\ pc = "idle"
    /\ fault = "none"
    /\ LET r == PopulationPerson(people_by_id, people, person_id)
       IN  IF r.fault # "none"
           THEN /\ fault' = r.fault
                /\ handle' = handle
                /\ op' = [NoOp EXCEPT !.name = "HappinessModifierTable", !.pid = person_id]
           ELSE /\ row < Len(Modifiers(people[r.person.index + 1]))
                /\ fault' = fault
                /\ handle' = [person |-> r.person.index,
                              key |-> Key(Modifiers(people[r.person.index + 1])[row + 1])]
                /\ op' = [NoOp EXCEPT !.name = "HappinessModifierTable",
                                      !.pid = person_id, !.person = r.person.index,
                                      !.mid = handle'.key]
    /\ UNCHANGED <<NEXT_PERSON_ID, NEXT_HAPPINESS_MODIFIER_ID, people, people_by_id,
                   pc, cur, week, extras, issuedPersonIds, issuedModifierIds,
                   discardedModifierIds, before, ticked, inserted, created, thr>>

\* HappinessModifierTableEntry: the derived signal reads the row's happiness
HappinessModifierTableEntry ==
    /\ pc = "idle"
    /\ fault = "none"
    /\ handle # NoHandle
    /\ LET r == HappinessModifierHappiness(people, handle)
       IN  /\ fault' = r.fault
           /\ op' = [NoOp EXCEPT !.name = "HappinessModifierTableEntry",
                                 !.person = handle.person, !.mid = handle.key,
                                 !.result = r.value]
    /\ UNCHANGED <<NEXT_PERSON_ID, NEXT_HAPPINESS_MODIFIER_ID, people, people_by_id,
                   pc, cur, week, extras, handle, issuedPersonIds, issuedModifierIds,
                   discardedModifierIds, before, ticked, inserted, created, thr>>

\* The ids a caller looks up: every id present, and two that are not (0, which
\* no counter starting at FIRST_ID has issued, and the next id not yet issued).
ProbeIds == DOMAIN people_by_id \cup {0, NEXT_PERSON_ID}

Next ==
    \/ PopulationNewPush
    \/ PopulationNewCollect
    \/ FinishWeek
    \/ HappinessClear
    \/ HappinessPush
    \/ FinishWeekReturn
    \/ \E index \in 0 .. (NumPeople - 1) : AddHappinessModifier(index)
    \/ \E person_id \in ProbeIds : PersonLookup(person_id)
    \/ \E person_id \in ProbeIds, row \in 0 .. MaxExtra :
            HappinessModifierTable(person_id, row)
    \/ HappinessModifierTableEntry

Spec == Init /\ [][Next]_vars

----------------------------------------------------------------------------
(* A process that has allocated ids before: earlier GlobalState instances, *)
(* and other callers of the public HappinessModifier::create, which the    *)
(* model lets run before the first tick.  The views are left out.          *)

InitLate ==
    \E n \in 0 .. MaxEarlier :
        InitFrom(FIRST_ID + n * NumPeople, FIRST_ID + n * NumPeople)

\* HappinessModifier::create called by other code, the modifier dropped
CreateModifier ==
    /\ pc = "idle"
    /\ fault = "none"
    /\ week = 0
    /\ extras = 0
    /\ LET m == HappinessModifierCreate(NEXT_HAPPINESS_MODIFIER_ID)
       IN  /\ NEXT_HAPPINESS_MODIFIER_ID' = m.next
           /\ issuedModifierIds' = issuedModifierIds \cup {Key(m.value)}
           /\ op' = [NoOp EXCEPT !.name = "CreateModifier", !.mid = Key(m.value)]
    /\ UNCHANGED <<NEXT_PERSON_ID, people, people_by_id, pc, cur, week, extras, fault,
                   handle, issuedPersonIds, discardedModifierIds, before, ticked,
                   inserted, created, thr>>

NextLate ==
    \/ PopulationNewPush
    \/ PopulationNewCollect
    \/ CreateModifier
    \/ FinishWeek
    \/ HappinessClear
    \/ HappinessPush
    \/ FinishWeekReturn
    \/ \E index \in 0 .. (NumPeople - 1) : AddHappinessModifier(index)

SpecLate == InitLate /\ [][NextLate]_vars

----------------------------------------------------------------------------
(* Threads calling Person::create / HappinessModifier::create at once.     *)
(* A call is two steps: the thread enters create(), then the fetch_add,    *)
(* one atomic read-modify-write.  `seen` remembers the counter as it was   *)
(* when the thread entered.                                                *)

Kinds == {"person", "modifier"}

Counter(kind) ==
    IF kind = "person" THEN NEXT_PERSON_ID ELSE NEXT_HAPPINESS_MODIFIER_ID

ThreadEnter(t, kind) ==
    /\ thr[t].pc = "idle"
    /\ thr' = [thr EXCEPT ![t] = [pc |-> "entered", kind |-> kind,
                                  seen |-> Counter(kind), got |-> -1]]
    /\ UNCHANGED <<NEXT_PERSON_ID, NEXT_HAPPINESS_MODIFIER_ID>>
    /\ UNCHANGED mainVars

ThreadFetchAddRacy(t) ==
    /\ thr[t].pc = "entered"
    /\ LET a == fetch_add(thr[t].seen)
       IN  /\ thr' = [thr EXCEPT ![t].pc = "done", ![t].got = a.ret]
           /\ IF thr[t].kind = "person"
              THEN /\ NEXT_PERSON_ID' = a.next
                   /\ UNCHANGED NEXT_HAPPINESS_MODIFIER_ID
              ELSE /\ NEXT_HAPPINESS_MODIFIER_ID' = a.next
                   /\ UNCHANGED NEXT_PERSON_ID
    /\ UNCHANGED mainVars

\* NEXT_..._ID.fetch_add(1, Ordering::Relaxed) on thread t
ThreadFetchAdd(t) ==
    /\ thr[t].pc = "entered"
    /\ LET a == fetch_add(Counter(thr[t].kind))
       IN  /\ thr' = [thr EXCEPT ![t].pc = "done", ![t].got = a.ret]
           /\ IF thr[t].kind = "person"
              THEN /\ NEXT_PERSON_ID' = a.next
                   /\ UNCHANGED NEXT_HAPPINESS_MODIFIER_ID
              ELSE /\ NEXT_HAPPINESS_MODIFIER_ID' = a.next
                   /\ UNCHANGED NEXT_PERSON_ID
    /\ UNCHANGED mainVars

InitThreads ==
    \E pstart \in {FIRST_ID, IdMax - 1}, mstart \in {FIRST_ID, IdMax - 1} :
        InitFrom(pstart, mstart)

NextThreads ==
    \/ \E t \in 1 .. NumThreads, kind \in Kinds : ThreadEnter(t, kind)
    \/ \E t \in 1 .. NumThreads : ThreadFetchAdd(t)

SpecThreads == InitThreads /\ [][NextThreads]_vars

----------------------------------------------------------------------------
(* The tick as the one thread runs it: finish_week is synchronous code, so *)
(* once it is called each of its steps is taken.  The views are left out.  *)

----------------------------------------------------------------------------
(* The page as main mounts it: PersonView over the population of a process *)
(* that may have built populations before.                                 *)

\* PersonView: let person_id = PersonId(2)
PERSON_VIEW_ID == 2

\* PersonView renders HappinessModifierTable for its hard-coded person
PersonView(row) == HappinessModifierTable(PERSON_VIEW_ID, row)

NextViews ==
    \/ PopulationNewPush
    \/ PopulationNewCollect
    \/ FinishWeek
    \/ HappinessClear
    \/ HappinessPush
    \/ FinishWeekReturn
    \/ \E index \in 0 .. (NumPeople - 1) : AddHappinessModifier(index)
    \/ \E row \in 0 .. MaxExtra : PersonView(row)

SpecViews == InitLate /\ [][NextViews]_vars

----------------------------------------------------------------------------
(* A tick under the scheduling of the code: synchronous, on one thread.    *)

NextLive ==
    \/ PopulationNewPush
    \/ PopulationNewCollect
    \/ FinishWeek
    \/ HappinessClear
    \/ HappinessPush
    \/ FinishWeekReturn
    \/ \E index \in 0 .. (NumPeople - 1) : AddHappinessModifier(index)

SpecLive ==
    /\ Init
    /\ [][NextLive]_vars
    /\ WF_vars(HappinessClear)
    /\ WF_vars(HappinessPush)
    /\ WF_vars(FinishWeekReturn)

----------------------------------------------------------------------------
(* Claims.                                                                 *)

IdsOf(seq) == [i \in 1 .. Len(seq) |-> Key(seq[i])]

Distinct(rows) == Cardinality(KeysOf(rows)) = Len(rows)

AllocatesModifier(o) ==
    o.name \in {"PersonCreate", "HappinessPush", "AddHappinessModifier", "CreateModifier"}

\* C1: reading a modifier's happiness through a handle taken earlier never ends
\* in a panic, whatever ticks have run since the handle was taken.
C1_HandleReadNeverPanics ==
    op.name = "HappinessModifierTableEntry" => fault = "none"

\* C2: when Happiness::finish_week has run on a person, that person holds exactly
\* one modifier, and its id is none of the ids the store held before the call.
C2_FinishWeekLeavesOneFreshModifier ==
    op.name = "HappinessPush" =>
        LET rows == Modifiers(people[op.person + 1])
        IN  /\ Len(rows) = 1
            /\ Key(rows[1]) \notin KeysOf(Modifiers(before[op.person + 1]))

\* C2 witness: a tick has replaced a store that held several modifiers.
C2_Witness ==
    /\ op.name = "HappinessPush"
    /\ Len(Modifiers(before[op.person + 1])) > 1
    /\ Len(Modifiers(people[op.person + 1])) = 1

\* C3: during Population::finish_week the persons advanced so far are the first
\* persons of the population as it was at the call, each once, in order; when the
\* call returns every one of them has been advanced, and the PersonIds and their
\* order are what they were at the call.
C3_PopulationTickCoverage ==
    /\ pc \in {"iter", "push"} =>
          /\ Len(ticked) <= Len(before)
          /\ ticked = SubSeq(IdsOf(before), 1, Len(ticked))
          /\ IdsOf(people) = IdsOf(before)
    /\ op.name = "FinishWeekReturn" =>
          /\ ticked = IdsOf(before)
          /\ IdsOf(people) = IdsOf(before)
          /\ Distinct(before)

\* C3 witness: a tick of the whole population has returned.
C3_Witness ==
    /\ op.name = "FinishWeekReturn"
    /\ week >= 1
    /\ Len(ticked) = NumPeople

\* C4: every id an allocator returns is greater than every id that allocator
\* returned before (so the ids are pairwise distinct and increase in call order).
C4_AllocatorsStrictlyIncreasing ==
    [][/\ op'.name = "PersonCreate" =>
              \A x \in issuedPersonIds : x < op'.pid
       /\ AllocatesModifier(op') =>
              \A x \in issuedModifierIds : x < op'.mid]_vars

\* C4 witness: a tick in the second week has allocated a modifier id.
C4_Witness ==
    /\ op.name = "HappinessPush"
    /\ week >= 1
    /\ Cardinality(issuedModifierIds) > 2 * NumPeople
    /\ Cardinality(issuedPersonIds) = NumPeople

\* C5: no two concurrent calls on the same allocator return the same id.
C5_ConcurrentCallsDistinct ==
    \A t1, t2 \in 1 .. NumThreads :
        (/\ t1 # t2
         /\ thr[t1].pc = "done"
         /\ thr[t2].pc = "done"
         /\ thr[t1].kind = thr[t2].kind) => thr[t1].got # thr[t2].got

\* C5 witness: two threads were inside create() of one allocator at once, and
\* both have returned.
C5_Witness ==
    \E t1, t2 \in 1 .. NumThreads :
        /\ t1 # t2
        /\ thr[t1].pc = "done"
        /\ thr[t2].pc = "done"
        /\ thr[t1].kind = thr[t2].kind
        /\ thr[t1].seen = thr[t2].seen

\* C6: a counter never goes back to a smaller value without the process ending
\* in an overflow fault.
C6_OverflowFailsFast ==
    [][(\/ NEXT_HAPPINESS_MODIFIER_ID' < NEXT_HAPPINESS_MODIFIER_ID
        \/ NEXT_PERSON_ID' < NEXT_PERSON_ID) => fault' = "Overflow"]_vars

\* C7: once Population::new has returned, the index has exactly the keys of the
\* people, person(k) returns the element at the indexed position and that element
\* has key k, and the people are each pushed person once, in the order pushed.
C7_IndexConsistent ==
    pc # "boot" =>
        /\ DOMAIN people_by_id = KeysOf(people)
        /\ \A k \in DOMAIN people_by_id :
              LET r == PopulationPerson(people_by_id, people, k)
              IN  /\ r.fault = "none"
                  /\ r.person.index = people_by_id[k]
                  /\ r.person.id = k
        /\ Distinct(people)
        /\ IdsOf(people) = inserted

\* C7 witness: after a tick, a lookup of a present id has returned its person.
C7_Witness ==
    /\ op.name = "PersonLookup"
    /\ week >= 1
    /\ op.pid \in KeysOf(people)
    /\ op.result = op.pid

\* C8: a lookup of an id the population does not hold ends in the NotFound fault
\* and hands out no person.
C8_LookupAbsentFails ==
    (/\ op.name \in {"PersonLookup", "HappinessModifierTable"}
     /\ op.pid \notin KeysOf(people)) =>
        /\ fault = "NotFound"
        /\ op.person = -1
        /\ op.result = -1
        /\ op.mid = -1

\* C8 witness: after a tick, an absent id has been looked up.
C8_Witness ==
    /\ op.name = "PersonLookup"
    /\ op.pid \notin KeysOf(people)
    /\ week >= 1
    /\ fault = "NotFound"

\* C9: after an insert into a modifier store, the store holds no two modifiers
\* with the same key (an insert of a key already present is rejected).
C9_DuplicateInsertRejected ==
    op.name = "AddHappinessModifier" =>
        \/ Distinct(Modifiers(people[op.person + 1]))
        \/ fault = "DuplicateKey"

\* C10: no two persons share a PersonId, no two modifiers anywhere share a
\* HappinessModifierId, and no modifier carries the id of a discarded one.
C10_KeysUnique ==
    /\ Distinct(people)
    /\ \A i \in 1 .. Len(people) :
          /\ Distinct(Modifiers(people[i]))
          /\ KeysOf(Modifiers(people[i])) \cap discardedModifierIds = {}
          /\ \A j \in 1 .. Len(people) :
                i # j => KeysOf(Modifiers(people[i])) \cap KeysOf(Modifiers(people[j])) = {}

\* C10 witness: modifiers have been discarded by a tick and created since, by
\* the tick and by add_happiness_modifier.
C10_Witness ==
    /\ op.name = "AddHappinessModifier"
    /\ week >= 1
    /\ discardedModifierIds # {}
    /\ Len(Modifiers(people[op.person + 1])) = 2

RECURSIVE SumHappiness(_)
SumHappiness(rows) ==
    IF rows = <<>> THEN 0
    ELSE KindHappiness(Head(rows).kind) + SumHappiness(Tail(rows))

\* C11: after Population::new and any number of complete ticks (and nothing
\* else), there are five persons with distinct ids, each with exactly one
\* modifier, of kind Default and happiness 0.5, so that each person's total is
\* 0.5; after a tick no person's modifier has the id it had before the tick.
C11_FivePeopleOneDefaultModifier ==
    (pc = "idle" /\ extras = 0) =>
        /\ Len(people) = NumPeople
        /\ Distinct(people)
        /\ \A i \in 1 .. Len(people) :
              LET rows == Modifiers(people[i])
              IN  /\ Len(rows) = 1
                  /\ rows[1].kind = "Default"
                  /\ KindHappiness(rows[1].kind) = 50
                  /\ SumHappiness(rows) = 50
                  /\ week >= 1 =>
                        /\ Len(Modifiers(before[i])) = 1
                        /\ Key(rows[1]) # Key(Modifiers(before[i])[1])

\* C11 witness: two complete ticks have run since Population::new.
C11_Witness ==
    /\ pc = "idle"
    /\ extras = 0
    /\ week >= 2
    /\ op.name = "FinishWeekReturn"

\* C12: the happiness of a kind is defined for every kind and is 0.5 for
\* Default; every modifier's kind is one of the kinds, and a read of a modifier
\* that returns, returns 0.5 in whatever state it is made.
C12_ContributionTotalAndPure ==
    /\ \A kind \in HappinessModifierKind : KindHappiness(kind) = 50
    /\ \A i \in 1 .. Len(people) :
          \A k \in 1 .. Len(Modifiers(people[i])) :
              Modifiers(people[i])[k].kind \in HappinessModifierKind
    /\ (op.name = "HappinessModifierTableEntry" /\ fault = "none") =>
          op.result = 50

\* C12 witness: a modifier created by a tick has been read.
C12_Witness ==
    /\ op.name = "HappinessModifierTableEntry"
    /\ fault = "none"
    /\ week >= 1
    /\ op.result = 50
    /\ op.mid \in KeysOf(Modifiers(people[op.person + 1]))

Increasing(ids) ==
    \A i, j \in 1 .. Len(ids) : i < j => ids[i] < ids[j]

InTick == pc \in {"iter", "push"}

\* C13: a tick takes the persons in the order of the people sequence, and one
\* person's tick is over before the next one's starts; when the tick returns,
\* the new modifier ids increase along the people sequence.
C13_TickInStoreOrder ==
    /\ (InTick \/ op.name = "FinishWeekReturn") =>
          /\ ticked = SubSeq(IdsOf(people), 1, Len(ticked))
          /\ Len(created) <= Len(ticked)
          /\ Len(ticked) <= Len(created) + 1
          /\ pc # "push" => Len(created) = Len(ticked)
          /\ Increasing(created)
    /\ op.name = "FinishWeekReturn" =>
          /\ Len(created) = Len(people)
          /\ \A i \in 1 .. Len(people) : IdsOf(Modifiers(people[i])) = <<created[i]>>
          /\ \A i, j \in 1 .. Len(people) :
                i < j => Key(Modifiers(people[i])[1]) < Key(Modifiers(people[j])[1])

\* C13 witness: the second tick has returned.
C13_Witness ==
    /\ op.name = "FinishWeekReturn"
    /\ week >= 2
    /\ Len(created) = NumPeople

\* C14: a step of Person::finish_week on a person changes that person's
\* modifiers and nothing else of the population: the other persons, every
\* PersonId, the length and order of people, and people_by_id stay as they were.
C14_PersonTickFrame ==
    [][op'.name \in {"HappinessClear", "HappinessPush"} =>
          /\ Len(people') = Len(people)
          /\ \A i \in 1 .. Len(people) :
                /\ Key(people'[i]) = Key(people[i])
                /\ i # op'.person + 1 => people'[i] = people[i]
          /\ Modifiers(people'[op'.person + 1]) # Modifiers(people[op'.person + 1])
          /\ people_by_id' = people_by_id
          /\ NEXT_PERSON_ID' = NEXT_PERSON_ID]_vars

\* C14 witness: a tick has replaced the modifier of a person in the middle of
\* the population.
C14_Witness ==
    /\ op.name = "HappinessPush"
    /\ op.person = 2
    /\ week >= 1
    /\ Modifiers(people[op.person + 1]) # Modifiers(before[op.person + 1])

\* C15: once the population is built the person counter stays at 6; the
\* modifier counter is 6 + 5k after k complete ticks and moves by one with each
\* person a running tick has finished.
C15_CountersIndependent ==
    /\ pc # "boot" => NEXT_PERSON_ID = FIRST_ID + NumPeople
    /\ (pc = "idle" /\ extras = 0) =>
          NEXT_HAPPINESS_MODIFIER_ID = FIRST_ID + NumPeople + NumPeople * week
    /\ (InTick /\ extras = 0) =>
          NEXT_HAPPINESS_MODIFIER_ID =
              FIRST_ID + NumPeople + NumPeople * week + Len(created)

\* C15 witness: two complete ticks have run and nothing else.
C15_Witness ==
    /\ pc = "idle"
    /\ extras = 0
    /\ week = 2
    /\ NEXT_PERSON_ID = FIRST_ID + NumPeople
    /\ NEXT_HAPPINESS_MODIFIER_ID = FIRST_ID + 3 * NumPeople

\* C16: a tick that has been called returns: from every point of a running
\* Population::finish_week the run reaches its return.
C16_TickRunsToCompletion ==
    InTick ~> (pc = "idle" /\ op.name = "FinishWeekReturn")

\* C16 witness: a tick called on stores of several modifiers has returned.
C16_Witness ==
    /\ op.name = "FinishWeekReturn"
    /\ pc = "idle"
    /\ \E i \in 1 .. Len(before) : Len(Modifiers(before[i])) > 1
    /\ Len(ticked) = NumPeople

AllKeys(seq) == UNION {KeysOf(Modifiers(seq[i])) : i \in 1 .. Len(seq)}

\* C17: at every point of a running tick, each person before the loop's
\* position holds exactly one modifier, allocated by this tick; each person
\* after it holds what it held when the tick was called; the person at the
\* position holds that too before its clear and nothing between its clear and
\* its push; so at most one store is empty.
C17_TickIntermediateStates ==
    InTick =>
        /\ Len(people) = Len(before)
        /\ Len(created) = cur
        /\ \A i \in 1 .. Len(people) :
              /\ i <= cur =>
                    /\ IdsOf(Modifiers(people[i])) = <<created[i]>>
                    /\ created[i] \notin AllKeys(before)
              /\ i > cur + 1 => people[i] = before[i]
              /\ (i = cur + 1 /\ pc = "iter") => people[i] = before[i]
              /\ (i = cur + 1 /\ pc = "push") =>
                    /\ Modifiers(people[i]) = <<>>
                    /\ Key(people[i]) = Key(before[i])
        /\ Cardinality({i \in 1 .. Len(people) : Modifiers(people[i]) = <<>>}) <= 1

\* C17 witness: in a later tick, the third person is between its clear and its
\* push while a person after it still holds two modifiers.
C17_Witness ==
    /\ pc = "push"
    /\ cur = 2
    /\ week >= 1
    /\ Modifiers(people[cur + 1]) = <<>>
    /\ \E i \in (cur + 2) .. Len(people) : Len(Modifiers(people[i])) = 2

\* no PersonId was issued in this process before this population's own
FirstConstruction == issuedPersonIds = {inserted[i] : i \in 1 .. Len(inserted)}

PersonViewLookedUp == op.name = "HappinessModifierTable" /\ op.pid = PERSON_VIEW_ID

\* C18: a population that is the first one built in the process holds the
\* PersonIds 1..5 at positions 0..4, and PersonView's lookup of PersonId(2)
\* succeeds with the second person, before and after any ticks; a population
\* built after an earlier one does not hold PersonId(2), and the lookup fails.
C18_PersonViewLookup ==
    pc # "boot" =>
        IF FirstConstruction
        THEN /\ IdsOf(people) = [i \in 1 .. NumPeople |-> i]
             /\ PERSON_VIEW_ID \in DOMAIN people_by_id
             /\ PersonViewLookedUp =>
                    /\ fault = "none"
                    /\ op.person = 1
                    /\ Key(people[op.person + 1]) = PERSON_VIEW_ID
                    /\ handle.person = op.person
        ELSE /\ PERSON_VIEW_ID \notin KeysOf(people)
             /\ PERSON_VIEW_ID \notin DOMAIN people_by_id
             /\ PersonViewLookedUp => fault = "NotFound"

\* C18 witness: in the first population PersonView's lookup has succeeded
\* after a tick.
C18_Witness ==
    /\ FirstConstruction
    /\ PersonViewLookedUp
    /\ week >= 1
    /\ pc = "idle"
    /\ fault = "none"
    /\ op.person = 1

\* in a population built after an earlier one PersonView's lookup has failed
C18_LateLookupFailed ==
    /\ ~FirstConstruction
    /\ PersonViewLookedUp
    /\ fault = "NotFound"

====
